---- MODULE Spec2Model ----
(***************************************************************************)
(* Model of deepobs/pytorch/runners/runner.py: PTRunner.run,               *)
(* PTRunner.evaluate and the two epoch-loop drivers                        *)
(* StandardRunner.training and LearningRateScheduleRunner.training.        *)
(*                                                                         *)
(* Python floats are modelled as exact rationals (k = "fin", n/d in lowest *)
(* terms) together with the two non-finite values, NaN and Inf. A local    *)
(* name that has not been assigned yet holds Unbound.                      *)
(***************************************************************************)
EXTENDS Integers, Sequences, FiniteSets, TLC

\* ---------------------------------------------------------------- bounds
MaxEpochs == 2
MaxTrainBatches == 3
MaxEvalBatches == 2
MaxInterval == 2

\* ---------------------------------------------------------------- floats
Abs(x) == IF x < 0 THEN -x ELSE x

RECURSIVE GCD(_, _)
GCD(a, b) == IF b = 0 THEN a ELSE GCD(b, a % b)

Rat(n, d) ==
    LET g == GCD(Abs(n), d)
    IN  [k |-> "fin", n |-> n \div g, d |-> d \div g]

NaN == [k |-> "nan", n |-> 0, d |-> 1]
Inf == [k |-> "inf", n |-> 0, d |-> 1]
Unbound == [k |-> "unbound", n |-> 0, d |-> 1]
Zero == Rat(0, 1)

\* a + b on floats
FAdd(a, b) ==
    IF a.k = "nan" \/ b.k = "nan" THEN NaN
    ELSE IF a.k = "inf" \/ b.k = "inf" THEN Inf
    ELSE Rat(a.n * b.d + b.n * a.d, a.d * b.d)

\* a * b on floats
FMul(a, b) ==
    IF a.k = "nan" \/ b.k = "nan" THEN NaN
    ELSE IF a.k = "inf" \/ b.k = "inf" THEN Inf
    ELSE Rat(a.n * b.n, a.d * b.d)

\* a / c for a batch counter c > 0
FDiv(a, c) == IF a.k = "fin" THEN Rat(a.n, a.d * c) ELSE a

\* np.isnan, np.isinf
IsNan(a) == a.k = "nan"
IsInf(a) == a.k = "inf"

\* ---------------------------------------------------------------- python values
None == [t |-> "None", v |-> <<>>]
List(s) == [t |-> "list", v |-> s]
Bool(b) == [t |-> "bool", v |-> <<b>>]
Float(x) == [t |-> "float", v |-> <<x>>]

\* the truth value Python gives x in `if x` and `not x`
Truthy(x) ==
    CASE x.t = "None" -> FALSE
      [] x.t = "bool" -> x.v[1]
      [] x.t = "float" -> x.v[1].n # 0
      [] x.t = "list" -> Len(x.v) > 0
NoOutput == [none |-> TRUE]

\* ---------------------------------------------------------------- state
VARIABLES
    entry,                  \* "training" | "run": the method the caller invoked
    runner,                 \* "standard" | "lrsched": the class it is invoked on
    args,                   \* the arguments given to run
    hyper_ok,               \* the optimizer constructor accepts hyperparams
    num_epochs,
    tb_importable,          \* torch.utils.tensorboard can be imported
    tproblem,               \* [known, nTrain, nEval, has_reg, bad]: the test problem
    train_log_interval,     \* parameters of training
    tb_log,
    lr_sched_epochs,
    lr_sched_factors,
    tp_mode,                \* mode of the pass begun by the last init op
    tp_pos,                 \* batches pulled from the current pass
    tp_exhausted,           \* the current pass has raised StopIteration
    opt_steps,              \* opt.step() calls: the state of model and optimizer
    zero_grads,             \* opt.zero_grad() calls
    opt_constructed,        \* calls of the optimizer's constructor that returned
    lr,                     \* the optimizer's learning rate, relative to the initial rate
    sched_epoch,            \* the schedule's epoch counter; -1 when no schedule was built
    lr_log,                 \* epochs at which "Setting learning rate" was printed
    pc,
    epoch_count,
    batch_count,
    global_step,            \* -1: not bound
    batch_loss,
    train_losses,
    test_losses,
    train_accuracies,
    test_accuracies,
    minibatch_train_losses,
    tb_points,              \* global steps passed to summary_writer.add_scalar
    ev_test,                \* evaluate's argument test
    ev_ret,                 \* where evaluate returns to
    loss,                   \* evaluate's locals
    accuracy,
    batchCount,
    ev_result,              \* (loss, accuracy) returned by the last evaluate
    first_result,           \* the result of an earlier evaluate kept by the caller
    aborted,                \* _abort_routine calls
    output,                 \* the value training returned
    no_logs,                \* run's local no_logs
    persisted,              \* write_output calls
    run_result,             \* the value run returned
    exception               \* the exception that left the call, or "none"

config == <<entry, runner, args, hyper_ok, num_epochs, tb_importable, tproblem>>
params == <<train_log_interval, tb_log, lr_sched_epochs, lr_sched_factors>>
tpvars == <<tp_mode, tp_pos, tp_exhausted>>
optvars == <<opt_steps, zero_grads, opt_constructed>>
schedvars == <<lr, sched_epoch, lr_log>>
trajectories == <<train_losses, test_losses, train_accuracies, test_accuracies>>
trainvars == <<batch_count, global_step, batch_loss, minibatch_train_losses, tb_points>>
evalvars == <<ev_test, ev_ret, loss, accuracy, batchCount, ev_result, first_result>>
runvars == <<no_logs, persisted, run_result>>
vars == <<config, params, tpvars, optvars, schedvars, pc, epoch_count, trajectories,
          trainvars, evalvars, aborted, output, runvars, exception>>

\* ---------------------------------------------------------------- test problem
\* The regularization loss of the test problem (get_regularization_loss).
RegLoss == Rat(1, 2)

\* Number of batches of a pass in the given mode.
PassLength(mode) == IF mode = "train" THEN tproblem.nTrain ELSE tproblem.nEval

\* Loss and accuracy of batch i (0-based) of a pass in mode, for the model
\* state reached after p optimizer steps: a fixed function of the three.
BatchLoss(mode, i, p) == Rat(2 * (i + 1) + 3 * p + (IF mode = "test" THEN 1 ELSE 0), 1)
BatchAccuracy(mode, i, p) == Rat((i + p + (IF mode = "test" THEN 1 ELSE 0)) % 2, 1)

\* get_batch_loss_and_accuracy in train mode: the loss of the next batch, or the
\* test problem's non-finite value when the model has diverged at that batch.
TrainBatchLoss(diverged) ==
    IF diverged THEN tproblem.bad ELSE BatchLoss("train", tp_pos, opt_steps)

\* ---------------------------------------------------------------- exceptions
Raise(e) == pc' = "raised" /\ exception' = e

\* the two evaluation modes exchanged
EvalModeSwapped(test) == IF test THEN "train_eval" ELSE "test"

\* ---------------------------------------------------------------- PTRunner.evaluate
EvalMode(test) == IF test THEN "test" ELSE "train_eval"

\* MeanLoss with the regularization loss added before the division
MeanLossRegPerBatch(sum, count, has_reg) ==
    IF has_reg THEN FDiv(FAdd(sum, RegLoss), count) ELSE FDiv(sum, count)

\* loss /= batchCount, then the regularization loss added if the capability is there
MeanLoss(sum, count, has_reg) ==
    IF has_reg THEN FAdd(FDiv(sum, count), RegLoss) ELSE FDiv(sum, count)

\* accuracy /= batchCount
MeanAccuracy(sum, count) == FDiv(sum, count)

\* EvalInit with accumulators that keep what the call before left in them
EvalInitKeepsSums ==
    /\ pc = "evaluate"
    /\ tp_mode' = EvalMode(ev_test)
    /\ tp_pos' = 0
    /\ tp_exhausted' = FALSE
    /\ batchCount' = 0
    /\ pc' = "eval_loop"
    /\ UNCHANGED <<config, params, optvars, schedvars, epoch_count, trajectories,
                   trainvars, ev_test, ev_ret, loss, accuracy, ev_result, first_result,
                   aborted, output, runvars, exception>>

\* the init op of the split and the three accumulators
EvalInit ==
    /\ pc = "evaluate"
    /\ tp_mode' = EvalMode(ev_test)
    /\ tp_pos' = 0
    /\ tp_exhausted' = FALSE
    /\ loss' = Zero
    /\ accuracy' = Zero
    /\ batchCount' = 0
    /\ pc' = "eval_loop"
    /\ UNCHANGED <<config, params, optvars, schedvars, epoch_count, trajectories,
                   trainvars, ev_test, ev_ret, ev_result, first_result, aborted,
                   output, runvars, exception>>

\* an evaluation batch that also applies an optimizer step
EvalBatchTrains ==
    /\ pc = "eval_loop"
    /\ tp_pos < PassLength(tp_mode)
    /\ batchCount' = batchCount + 1
    /\ loss' = FAdd(loss, BatchLoss(tp_mode, tp_pos, opt_steps))
    /\ accuracy' = FAdd(accuracy, BatchAccuracy(tp_mode, tp_pos, opt_steps))
    /\ tp_pos' = tp_pos + 1
    /\ opt_steps' = opt_steps + 1
    /\ UNCHANGED <<config, params, tp_mode, tp_exhausted, zero_grads, opt_constructed,
                   schedvars, pc, epoch_count, trajectories, trainvars, ev_test, ev_ret,
                   ev_result, first_result, aborted, output, runvars, exception>>

\* one iteration of the evaluation loop that gets a batch
EvalBatch ==
    /\ pc = "eval_loop"
    /\ tp_pos < PassLength(tp_mode)
    /\ batchCount' = batchCount + 1
    /\ loss' = FAdd(loss, BatchLoss(tp_mode, tp_pos, opt_steps))
    /\ accuracy' = FAdd(accuracy, BatchAccuracy(tp_mode, tp_pos, opt_steps))
    /\ tp_pos' = tp_pos + 1
    /\ UNCHANGED <<config, params, tp_mode, tp_exhausted, optvars, schedvars, pc,
                   epoch_count, trajectories, trainvars, ev_test, ev_ret, ev_result,
                   first_result, aborted, output, runvars, exception>>

\* EvalEnd returning zeros for an empty pass
EvalEndGuarded ==
    /\ pc = "eval_loop"
    /\ tp_pos >= PassLength(tp_mode)
    /\ tp_exhausted' = TRUE
    /\ ev_result' = IF batchCount = 0
                    THEN [loss |-> Zero, accuracy |-> Zero]
                    ELSE [loss |-> MeanLoss(loss, batchCount, tproblem.has_reg),
                          accuracy |-> MeanAccuracy(accuracy, batchCount)]
    /\ pc' = ev_ret
    /\ UNCHANGED <<config, params, tp_mode, tp_pos, optvars, schedvars, epoch_count,
                   trajectories, trainvars, ev_test, ev_ret, loss, accuracy, batchCount,
                   first_result, aborted, output, runvars, exception>>

\* StopIteration ends the loop; the means are taken and returned
EvalEnd ==
    /\ pc = "eval_loop"
    /\ tp_pos >= PassLength(tp_mode)
    /\ tp_exhausted' = TRUE
    /\ IF batchCount = 0
       THEN /\ Raise("ZeroDivisionError")
            /\ UNCHANGED ev_result
       ELSE /\ ev_result' = [loss |-> MeanLoss(loss, batchCount, tproblem.has_reg),
                             accuracy |-> MeanAccuracy(accuracy, batchCount)]
            /\ pc' = ev_ret
            /\ UNCHANGED exception
    /\ UNCHANGED <<config, params, tp_mode, tp_pos, optvars, schedvars, epoch_count,
                   trajectories, trainvars, ev_test, ev_ret, loss, accuracy, batchCount,
                   first_result, aborted, output, runvars>>

\* ---------------------------------------------------------------- the drivers
\* LogsBatch counting the batches from 1
LogsBatchOneBased(count, interval) == (count + 1) % interval = 0

\* batch_count % train_log_interval == 0
LogsBatch(count, interval) == count % interval = 0

\* Diverged without the test for an infinite loss
DivergedNanOnly(l) == IsNan(l)

\* a divergence test that misses NaN
DivergedInfOnly(l) == IsInf(l)

\* np.isnan(batch_loss.item()) or np.isinf(batch_loss.item())
Diverged(l) == IsNan(l) \/ IsInf(l)

\* LastEpoch breaking one epoch early
LastEpochEarly(e, n) == e + 1 = n

\* the break taken one epoch too late
LastEpochLate(e, n) == e = n + 1

\* epoch_count == num_epochs
LastEpoch(e, n) == e = n

\* _abort_routine on one trajectory: its last value repeated up to length n + 1
AbortRoutine(traj, e, n) ==
    traj \o [i \in 1..(n + 1 - Len(traj)) |-> traj[Len(traj)]]

\* make_lr_schedule and the schedule's step: the rate after the counter moved to
\* epoch e, the factor of a breakpoint e applied to the rate before
ScheduleStep(rate, e, epochs, factors) ==
    IF epochs.t = "list" /\ factors.t = "list"
          /\ \E i \in 1..Len(epochs.v) : epochs.v[i] = e /\ i <= Len(factors.v)
    THEN LET i == CHOOSE j \in 1..Len(epochs.v) : epochs.v[j] = e
         IN  FMul(rate, factors.v[i])
    ELSE rate

\* opt = self._optimizer_class(...), the empty lists, the tensorboard writer
StdStart ==
    /\ pc = "training"
    /\ runner = "standard"
    /\ IF ~hyper_ok
       THEN /\ Raise("TypeError")
            /\ UNCHANGED <<tb_log, global_step, opt_constructed>>
       ELSE /\ opt_constructed' = opt_constructed + 1
            /\ IF tb_log
               THEN /\ tb_log' = tb_importable
                    /\ global_step' = 0
               ELSE UNCHANGED <<tb_log, global_step>>
            /\ pc' = "for_epoch"
            /\ UNCHANGED exception
    /\ UNCHANGED <<config, train_log_interval, lr_sched_epochs, lr_sched_factors, tpvars,
                   opt_steps, zero_grads, schedvars, epoch_count, trajectories,
                   batch_count, batch_loss, minibatch_train_losses, tb_points, evalvars,
                   aborted, output, runvars>>

\* opt = self._optimizer_class(...), the schedule if lr_sched_epochs is given
LrsStart ==
    /\ pc = "training"
    /\ runner = "lrsched"
    /\ IF ~hyper_ok
       THEN /\ Raise("TypeError")
            /\ UNCHANGED <<sched_epoch, opt_constructed>>
       ELSE /\ opt_constructed' = opt_constructed + 1
            /\ sched_epoch' = IF lr_sched_epochs # None THEN 0 ELSE sched_epoch
            /\ pc' = "for_epoch"
            /\ UNCHANGED exception
    /\ UNCHANGED <<config, params, tpvars, opt_steps, zero_grads, lr, lr_log, epoch_count,
                   trajectories, trainvars, evalvars, aborted, output, runvars>>

\* the next epoch_count of range(num_epochs + 1); evaluate(tproblem, test=False)
ForEpoch ==
    /\ pc = "for_epoch"
    /\ epoch_count' = epoch_count + 1
    /\ IF epoch_count + 1 > num_epochs
       THEN /\ pc' = "output"
            /\ UNCHANGED <<ev_test, ev_ret>>
       ELSE /\ ev_test' = FALSE
            /\ ev_ret' = "append_train"
            /\ pc' = "evaluate"
    /\ UNCHANGED <<config, params, tpvars, optvars, schedvars, trajectories, trainvars,
                   loss, accuracy, batchCount, ev_result, first_result, aborted, output,
                   runvars, exception>>

\* the train-eval result appended; evaluate(tproblem, test=True)
AppendTrain ==
    /\ pc = "append_train"
    /\ train_losses' = Append(train_losses, ev_result.loss)
    /\ train_accuracies' = Append(train_accuracies, ev_result.accuracy)
    /\ ev_test' = TRUE
    /\ ev_ret' = "append_test"
    /\ pc' = "evaluate"
    /\ UNCHANGED <<config, params, tpvars, optvars, schedvars, epoch_count, test_losses,
                   test_accuracies, trainvars, loss, accuracy, batchCount, ev_result,
                   first_result, aborted, output, runvars, exception>>

\* the test result appended; the break after the last round of evaluation
AppendTest ==
    /\ pc = "append_test"
    /\ test_losses' = Append(test_losses, ev_result.loss)
    /\ test_accuracies' = Append(test_accuracies, ev_result.accuracy)
    /\ pc' = IF LastEpoch(epoch_count, num_epochs) THEN "output"
             ELSE IF runner = "lrsched" THEN "sched_step"
             ELSE "train_init"
    /\ UNCHANGED <<config, params, tpvars, optvars, schedvars, epoch_count, train_losses,
                   train_accuracies, trainvars, evalvars, aborted, output, runvars,
                   exception>>

\* LrsSchedStep advancing the schedule at the breakpoints only
LrsSchedStepAtBreakpoints ==
    /\ pc = "sched_step"
    /\ IF lr_sched_epochs = None
       THEN /\ pc' = "train_init"
            /\ UNCHANGED <<schedvars, exception>>
       ELSE IF lr_sched_epochs.t # "list"
       THEN /\ Raise("TypeError")
            /\ UNCHANGED schedvars
       ELSE IF \E i \in 1..Len(lr_sched_epochs.v) : lr_sched_epochs.v[i] = epoch_count
       THEN /\ sched_epoch' = sched_epoch + 1
            /\ lr' = ScheduleStep(lr, sched_epoch + 1, lr_sched_epochs, lr_sched_factors)
            /\ lr_log' = Append(lr_log, epoch_count)
            /\ pc' = "train_init"
            /\ UNCHANGED exception
       ELSE /\ pc' = "train_init"
            /\ UNCHANGED <<schedvars, exception>>
    /\ UNCHANGED <<config, params, tpvars, optvars, epoch_count, trajectories, trainvars,
                   evalvars, aborted, output, runvars>>

\* lr_schedule.step() and the print at a breakpoint
LrsSchedStep ==
    /\ pc = "sched_step"
    /\ IF lr_sched_epochs = None
       THEN /\ pc' = "train_init"
            /\ UNCHANGED <<schedvars, exception>>
       ELSE /\ sched_epoch' = sched_epoch + 1
            /\ lr' = ScheduleStep(lr, sched_epoch + 1, lr_sched_epochs, lr_sched_factors)
            /\ IF lr_sched_epochs.t # "list"
               THEN /\ Raise("TypeError")
                    /\ UNCHANGED lr_log
               ELSE /\ lr_log' = IF \E i \in 1..Len(lr_sched_epochs.v) :
                                        lr_sched_epochs.v[i] = epoch_count
                                 THEN Append(lr_log, epoch_count)
                                 ELSE lr_log
                    /\ pc' = "train_init"
                    /\ UNCHANGED exception
    /\ UNCHANGED <<config, params, tpvars, optvars, epoch_count, trajectories, trainvars,
                   evalvars, aborted, output, runvars>>

\* a training pass entered without train_init_op
TrainInitSkipsInitOp ==
    /\ pc = "train_init"
    /\ batch_count' = 0
    /\ pc' = "train_loop"
    /\ UNCHANGED <<config, params, tpvars, optvars, schedvars, epoch_count, trajectories,
                   global_step, batch_loss, minibatch_train_losses, tb_points, evalvars,
                   aborted, output, runvars, exception>>

\* a training pass that restarts the telemetry step with the batch counter
TrainInitResetsStep ==
    /\ pc = "train_init"
    /\ tp_mode' = "train"
    /\ tp_pos' = 0
    /\ tp_exhausted' = FALSE
    /\ batch_count' = 0
    /\ global_step' = IF global_step = -1 THEN -1 ELSE 0
    /\ pc' = "train_loop"
    /\ UNCHANGED <<config, params, optvars, schedvars, epoch_count, trajectories,
                   batch_loss, minibatch_train_losses, tb_points, evalvars, aborted,
                   output, runvars, exception>>

\* tproblem.train_init_op(); batch_count = 0
TrainInit ==
    /\ pc = "train_init"
    /\ tp_mode' = "train"
    /\ tp_pos' = 0
    /\ tp_exhausted' = FALSE
    /\ batch_count' = 0
    /\ pc' = "train_loop"
    /\ UNCHANGED <<config, params, optvars, schedvars, epoch_count, trajectories,
                   global_step, batch_loss, minibatch_train_losses, tb_points, evalvars,
                   aborted, output, runvars, exception>>

\* one iteration of StandardRunner's batch loop that gets a batch
StdTrainBatch ==
    /\ pc = "train_loop"
    /\ runner = "standard"
    /\ tp_pos < PassLength("train")
    /\ \E diverged \in BOOLEAN :
          batch_loss' = IF tproblem.has_reg
                        THEN FAdd(TrainBatchLoss(diverged), RegLoss)
                        ELSE TrainBatchLoss(diverged)
    /\ zero_grads' = zero_grads + 1
    /\ tp_pos' = tp_pos + 1
    /\ opt_steps' = opt_steps + 1
    /\ UNCHANGED <<tp_exhausted, opt_constructed>>
    /\ IF train_log_interval = 0
       THEN /\ Raise("ZeroDivisionError")
            /\ UNCHANGED <<minibatch_train_losses, tb_points, batch_count, global_step>>
       ELSE /\ minibatch_train_losses' =
                   IF LogsBatch(batch_count, train_log_interval)
                   THEN Append(minibatch_train_losses, batch_loss')
                   ELSE minibatch_train_losses
            /\ tb_points' =
                   IF LogsBatch(batch_count, train_log_interval) /\ tb_log
                   THEN Append(tb_points, global_step)
                   ELSE tb_points
            /\ batch_count' = batch_count + 1
            /\ IF global_step = -1
               THEN /\ Raise("UnboundLocalError")
                    /\ UNCHANGED global_step
               ELSE /\ global_step' = global_step + 1
                    /\ UNCHANGED <<pc, exception>>
    /\ UNCHANGED <<config, params, tp_mode, schedvars, epoch_count, trajectories,
                   evalvars, aborted, output, runvars>>

\* one iteration of LearningRateScheduleRunner's batch loop that gets a batch
LrsTrainBatch ==
    /\ pc = "train_loop"
    /\ runner = "lrsched"
    /\ tp_pos < PassLength("train")
    /\ \E diverged \in BOOLEAN :
          batch_loss' = IF tproblem.has_reg
                        THEN FAdd(TrainBatchLoss(diverged), RegLoss)
                        ELSE TrainBatchLoss(diverged)
    /\ zero_grads' = zero_grads + 1
    /\ tp_pos' = tp_pos + 1
    /\ opt_steps' = opt_steps + 1
    /\ UNCHANGED <<tp_exhausted, opt_constructed>>
    /\ IF train_log_interval = 0
       THEN /\ Raise("ZeroDivisionError")
            /\ UNCHANGED <<minibatch_train_losses, batch_count>>
       ELSE /\ minibatch_train_losses' =
                   IF LogsBatch(batch_count, train_log_interval)
                   THEN Append(minibatch_train_losses, batch_loss')
                   ELSE minibatch_train_losses
            /\ batch_count' = batch_count + 1
            /\ UNCHANGED <<pc, exception>>
    /\ UNCHANGED <<config, params, tp_mode, schedvars, epoch_count, trajectories,
                   global_step, tb_points, evalvars, aborted, output, runvars>>

\* an end of pass that resets no gradients
TrainStopNoReset ==
    /\ pc = "train_loop"
    /\ tp_pos >= PassLength("train")
    /\ tp_exhausted' = TRUE
    /\ pc' = "diverge_check"
    /\ UNCHANGED <<config, params, tp_mode, tp_pos, optvars, schedvars, epoch_count,
                   trajectories, trainvars, evalvars, aborted, output, runvars,
                   exception>>

\* the iteration of the batch loop that gets StopIteration
TrainStop ==
    /\ pc = "train_loop"
    /\ tp_pos >= PassLength("train")
    /\ zero_grads' = zero_grads + 1
    /\ tp_exhausted' = TRUE
    /\ pc' = "diverge_check"
    /\ UNCHANGED <<config, params, tp_mode, tp_pos, opt_steps, opt_constructed, schedvars,
                   epoch_count, trajectories, trainvars, evalvars, aborted, output,
                   runvars, exception>>

\* the minibatch log as the abort routine hands it back to StandardRunner: unchanged
AbortRoutineLog(log) == log

\* a divergence abort that pads the minibatch log like a trajectory
DivergeCheckPadsLog ==
    /\ pc = "diverge_check"
    /\ IF batch_loss = Unbound
       THEN /\ Raise("UnboundLocalError")
            /\ UNCHANGED <<trajectories, minibatch_train_losses, aborted>>
       ELSE IF Diverged(batch_loss)
       THEN /\ train_losses' = AbortRoutine(train_losses, epoch_count, num_epochs)
            /\ test_losses' = AbortRoutine(test_losses, epoch_count, num_epochs)
            /\ train_accuracies' = AbortRoutine(train_accuracies, epoch_count, num_epochs)
            /\ test_accuracies' = AbortRoutine(test_accuracies, epoch_count, num_epochs)
            /\ minibatch_train_losses' =
                   AbortRoutine(minibatch_train_losses, epoch_count, num_epochs)
            /\ aborted' = aborted + 1
            /\ pc' = "output"
            /\ UNCHANGED exception
       ELSE /\ pc' = "for_epoch"
            /\ UNCHANGED <<trajectories, minibatch_train_losses, aborted, exception>>
    /\ UNCHANGED <<config, params, tpvars, optvars, schedvars, epoch_count, batch_count,
                   global_step, batch_loss, tb_points, evalvars, output, runvars>>

\* the test of the last batch loss, and the abort routine; only StandardRunner
\* passes the minibatch log to the abort routine and rebinds it to the result
DivergeCheck ==
    /\ pc = "diverge_check"
    /\ IF batch_loss = Unbound
       THEN /\ Raise("UnboundLocalError")
            /\ UNCHANGED <<trajectories, minibatch_train_losses, aborted>>
       ELSE IF Diverged(batch_loss)
       THEN /\ train_losses' = AbortRoutine(train_losses, epoch_count, num_epochs)
            /\ test_losses' = AbortRoutine(test_losses, epoch_count, num_epochs)
            /\ train_accuracies' = AbortRoutine(train_accuracies, epoch_count, num_epochs)
            /\ test_accuracies' = AbortRoutine(test_accuracies, epoch_count, num_epochs)
            /\ minibatch_train_losses' =
                   IF runner = "standard"
                   THEN AbortRoutineLog(minibatch_train_losses)
                   ELSE minibatch_train_losses
            /\ aborted' = aborted + 1
            /\ pc' = "output"
            /\ UNCHANGED exception
       ELSE /\ pc' = "for_epoch"
            /\ UNCHANGED <<trajectories, minibatch_train_losses, aborted, exception>>
    /\ UNCHANGED <<config, params, tpvars, optvars, schedvars, epoch_count, batch_count,
                   global_step, batch_loss, tb_points, evalvars, output, runvars>>

\* the output dictionary of StandardRunner.training
StdOutputRecord ==
    [train_losses |-> train_losses,
     test_losses |-> test_losses,
     minibatch_train_losses |-> minibatch_train_losses,
     train_accuracies |-> train_accuracies,
     test_accuracies |-> test_accuracies]

\* LrsOutputRecord without the schedule inputs
LrsOutputRecordNoParams ==
    [train_losses |-> train_losses,
     test_losses |-> test_losses,
     train_accuracies |-> train_accuracies,
     test_accuracies |-> test_accuracies]

\* the output dictionary of LearningRateScheduleRunner.training
LrsOutputRecord ==
    [train_losses |-> train_losses,
     test_losses |-> test_losses,
     train_accuracies |-> train_accuracies,
     test_accuracies |-> test_accuracies,
     analyzable_training_params |->
         [lr_sched_epochs |-> lr_sched_epochs, lr_sched_factors |-> lr_sched_factors]]

\* return output
Output ==
    /\ pc = "output"
    /\ output' = IF runner = "lrsched" THEN LrsOutputRecord ELSE StdOutputRecord
    /\ pc' = IF entry = "run" THEN "run_post" ELSE "done"
    /\ UNCHANGED <<config, params, tpvars, optvars, schedvars, epoch_count, trajectories,
                   trainvars, evalvars, aborted, runvars, exception>>

\* ---------------------------------------------------------------- specifications
NoResult == [loss |-> Unbound, accuracy |-> Unbound]

\* the test problems: passes of 0..Max batches, with or without the regularization
\* capability, and the non-finite value their loss takes on divergence
TestProblems ==
    [known : {TRUE}, nTrain : 0..MaxTrainBatches, nEval : 0..MaxEvalBatches,
     has_reg : BOOLEAN, bad : {NaN, Inf}]

\* the schedules given to LearningRateScheduleRunner.training
Schedules ==
    {[e |-> None, f |-> None],
     [e |-> List(<<1>>), f |-> List(<<Rat(1, 10)>>)],
     [e |-> List(<<1, 2>>), f |-> List(<<Rat(1, 10), Rat(1, 2)>>)]}

\* the locals of a call before it has run, whatever its arguments
InitLocals ==
    /\ zero_grads = 0
    /\ opt_constructed = 0
    /\ lr = Rat(1, 1)
    /\ sched_epoch = -1
    /\ lr_log = <<>>
    /\ epoch_count = -1
    /\ batch_count = 0
    /\ global_step = -1
    /\ batch_loss = Unbound
    /\ train_losses = <<>>
    /\ test_losses = <<>>
    /\ train_accuracies = <<>>
    /\ test_accuracies = <<>>
    /\ minibatch_train_losses = <<>>
    /\ tb_points = <<>>
    /\ loss = Zero
    /\ accuracy = Zero
    /\ batchCount = 0
    /\ ev_result = NoResult
    /\ first_result = NoResult
    /\ aborted = 0
    /\ output = NoOutput
    /\ no_logs = None
    /\ persisted = 0
    /\ run_result = NoOutput
    /\ exception = "none"

\* a test problem that was just set up and a model that was not trained yet
InitFresh ==
    /\ tp_mode = "none"
    /\ tp_pos = 0
    /\ tp_exhausted = FALSE
    /\ opt_steps = 0
    /\ ev_test = FALSE
    /\ ev_ret = "none"

\* a call of training on either runner
Init ==
    /\ entry = "training"
    /\ pc = "training"
    /\ runner \in {"standard", "lrsched"}
    /\ hyper_ok \in BOOLEAN
    /\ num_epochs \in 0..MaxEpochs
    /\ train_log_interval \in 1..MaxInterval
    /\ tproblem \in TestProblems
    /\ tb_log \in BOOLEAN
    /\ tb_importable \in BOOLEAN
    /\ runner = "lrsched" => ~tb_log
    /\ ~tb_log => tb_importable
    /\ \E s \in Schedules :
          /\ runner = "standard" => s.e = None
          /\ lr_sched_epochs = s.e
          /\ lr_sched_factors = s.f
          /\ args = [lr_sched_epochs |-> s.e, lr_sched_factors |-> s.f]
    /\ InitLocals
    /\ InitFresh

Common ==
    \/ EvalInit \/ EvalBatch \/ EvalEnd
    \/ ForEpoch \/ AppendTrain \/ AppendTest \/ TrainInit \/ TrainStop
    \/ DivergeCheck \/ Output

Std == StdStart \/ StdTrainBatch

Lrs == LrsStart \/ LrsSchedStep \/ LrsTrainBatch

Next == Common \/ Std \/ Lrs

Spec == Init /\ [][Next]_vars

\* ---------------------------------------------------------------- the schedule of the example
\* LearningRateScheduleRunner.training with lr_sched_epochs = [2, 4],
\* lr_sched_factors = [0.1, 0.1] and num_epochs = 5
InitSched ==
    /\ entry = "training"
    /\ pc = "training"
    /\ runner = "lrsched"
    /\ hyper_ok = TRUE
    /\ num_epochs = 5
    /\ train_log_interval \in 1..MaxInterval
    /\ tproblem \in {t \in TestProblems : t.nTrain \in 1..2 /\ t.nEval >= 1}
    /\ tb_log = FALSE
    /\ tb_importable = TRUE
    /\ lr_sched_epochs = List(<<2, 4>>)
    /\ lr_sched_factors = List(<<Rat(1, 10), Rat(1, 10)>>)
    /\ args = [lr_sched_epochs |-> lr_sched_epochs, lr_sched_factors |-> lr_sched_factors]
    /\ InitLocals
    /\ InitFresh

NextSched == Common \/ Lrs

SpecSched == InitSched /\ [][NextSched]_vars

\* ---------------------------------------------------------------- evaluate called twice
\* the caller keeps the first result and calls evaluate again with the same split
SecondCall ==
    /\ pc = "second_call"
    /\ first_result' = ev_result
    /\ ev_ret' = "compare"
    /\ pc' = "evaluate"
    /\ UNCHANGED <<config, params, tpvars, optvars, schedvars, epoch_count, trajectories,
                   trainvars, ev_test, loss, accuracy, batchCount, ev_result, aborted,
                   output, runvars, exception>>

\* evaluate(tproblem, test) on a test problem left in any mode at any point of a
\* pass, with a model trained for any number of steps
InitEval ==
    /\ entry = "evaluate"
    /\ pc = "evaluate"
    /\ runner = "standard"
    /\ hyper_ok = TRUE
    /\ num_epochs = 0
    /\ train_log_interval = 1
    /\ tb_log = FALSE
    /\ tb_importable = TRUE
    /\ lr_sched_epochs = None
    /\ lr_sched_factors = None
    /\ tproblem \in TestProblems
    /\ ev_test \in BOOLEAN
    /\ args = [test |-> ev_test]
    /\ ev_ret = "second_call"
    /\ opt_steps \in 0..MaxTrainBatches
    /\ tp_mode \in {"none", "train", "test", "train_eval"}
    /\ tp_pos \in 0..(IF tp_mode = "none" THEN 0 ELSE PassLength(tp_mode))
    /\ tp_exhausted \in {FALSE, tp_mode # "none" /\ tp_pos = PassLength(tp_mode)}
    /\ InitLocals

NextEval == EvalInit \/ EvalBatch \/ EvalEnd \/ SecondCall

SpecEval == InitEval /\ [][NextEval]_vars

\* ---------------------------------------------------------------- PTRunner.run
\* if not no_logs
Persists(flag) == ~Truthy(flag)

\* parse_args and the locals overwritten from it
RunStart ==
    /\ pc = "run"
    /\ no_logs' = args.weight_decay
    /\ pc' = "create_testproblem"
    /\ UNCHANGED <<config, params, tpvars, optvars, schedvars, epoch_count, trajectories,
                   trainvars, evalvars, aborted, output, persisted, run_result,
                   exception>>

\* create_testproblem: the test problem looked up by name and set up
RunCreateTestproblem ==
    /\ pc = "create_testproblem"
    /\ IF tproblem.known
       THEN pc' = "call_training" /\ UNCHANGED exception
       ELSE Raise("AttributeError")
    /\ UNCHANGED <<config, params, tpvars, optvars, schedvars, epoch_count, trajectories,
                   trainvars, evalvars, aborted, output, runvars>>

\* self.training(tproblem, hyperparams, num_epochs, print_train_iter,
\* train_log_interval, tb_log, tb_log_dir, **training_params): the arguments bound
\* to the parameters of the runner's training, by position and then by name
RunCallTraining ==
    /\ pc = "call_training"
    /\ IF args.training_params.lr_sched_epochs # None
       THEN /\ Raise("TypeError")
            /\ UNCHANGED params
       ELSE /\ pc' = "training"
            /\ UNCHANGED exception
            /\ IF runner = "standard"
               THEN /\ train_log_interval' = args.train_log_interval
                    /\ tb_log' = args.tb_log
                    /\ UNCHANGED <<lr_sched_epochs, lr_sched_factors>>
               ELSE /\ lr_sched_epochs' = args.print_train_iter
                    /\ lr_sched_factors' = [t |-> "int", v |-> <<args.train_log_interval>>]
                    /\ train_log_interval' = IF args.tb_log THEN 1 ELSE 0
                    /\ UNCHANGED tb_log
    /\ UNCHANGED <<config, tpvars, optvars, schedvars, epoch_count, trajectories, trainvars,
                   evalvars, aborted, output, runvars>>

\* _post_process_output, the output written unless no_logs, return output
RunReturn ==
    /\ pc = "run_post"
    /\ persisted' = IF Persists(no_logs) THEN persisted + 1 ELSE persisted
    /\ run_result' = output
    /\ pc' = "returned"
    /\ UNCHANGED <<config, params, tpvars, optvars, schedvars, epoch_count, trajectories,
                   trainvars, evalvars, aborted, output, no_logs, exception>>

\* the arguments of run
RunArgs ==
    [weight_decay : {None, Float(Zero), Float(Rat(1, 2000))},
     no_logs : {None, Bool(FALSE), Bool(TRUE)},
     train_log_interval : 1..MaxInterval,
     print_train_iter : {None, Bool(TRUE)},
     tb_log : BOOLEAN,
     training_params : {[lr_sched_epochs |-> None, lr_sched_factors |-> None],
                        [lr_sched_epochs |-> List(<<1>>),
                         lr_sched_factors |-> List(<<Rat(1, 10)>>)]}]

\* a call of run on either runner, for a test-problem name that exists or not
InitRun ==
    /\ entry = "run"
    /\ pc = "run"
    /\ runner \in {"standard", "lrsched"}
    /\ hyper_ok \in BOOLEAN
    /\ num_epochs \in 0..1
    /\ tproblem \in [known : BOOLEAN, nTrain : 1..2, nEval : 0..1, has_reg : {TRUE},
                     bad : {NaN}]
    /\ tb_importable = TRUE
    /\ args \in RunArgs
    /\ train_log_interval = 0
    /\ tb_log = FALSE
    /\ lr_sched_epochs = None
    /\ lr_sched_factors = None
    /\ InitLocals
    /\ InitFresh

NextRun ==
    \/ RunStart \/ RunCreateTestproblem \/ RunCallTraining \/ RunReturn
    \/ Common \/ Std \/ Lrs

SpecRun == InitRun /\ [][NextRun]_vars

\* ---------------------------------------------------------------- properties
\* What an evaluation pass over the split `mode` must return after p optimizer
\* steps, from the test problem's batches alone.
RECURSIVE SumLoss(_, _, _)
SumLoss(mode, n, p) ==
    IF n = 0 THEN 0 ELSE BatchLoss(mode, n - 1, p).n + SumLoss(mode, n - 1, p)

RECURSIVE SumAccuracy(_, _, _)
SumAccuracy(mode, n, p) ==
    IF n = 0 THEN 0 ELSE BatchAccuracy(mode, n - 1, p).n + SumAccuracy(mode, n - 1, p)

ExpectedLoss(mode, p) ==
    LET n == tproblem.nEval
    IN  IF tproblem.has_reg
        THEN Rat(SumLoss(mode, n, p) * RegLoss.d + RegLoss.n * n, n * RegLoss.d)
        ELSE Rat(SumLoss(mode, n, p), n)

ExpectedAccuracy(mode, p) == Rat(SumAccuracy(mode, tproblem.nEval, p), tproblem.nEval)

\* the loss of training batch i after p optimizer steps, when it is finite
ExpectedBatchLoss(i, p) ==
    IF tproblem.has_reg
    THEN Rat(BatchLoss("train", i, p).n * RegLoss.d + RegLoss.n, RegLoss.d)
    ELSE BatchLoss("train", i, p)

Ceil(a, b) == (a + b - 1) \div b

NonFinite(l) == l.k \in {"nan", "inf"}

\* C1: a run of either driver that completes without abort returns four
\* trajectories of length num_epochs + 1 each.
C1_TrajectoryLengths ==
    (output # NoOutput /\ aborted = 0) =>
        /\ Len(output.train_losses) = num_epochs + 1
        /\ Len(output.test_losses) = num_epochs + 1
        /\ Len(output.train_accuracies) = num_epochs + 1
        /\ Len(output.test_accuracies) = num_epochs + 1

C1_Witness ==
    /\ output # NoOutput
    /\ aborted = 0
    /\ runner = "standard"
    /\ num_epochs = MaxEpochs
    /\ opt_steps > 0

\* C2: StandardRunner.training on a test problem with non-empty passes, with
\* tb_log enabled or disabled, stops only by returning an output record: after
\* the evaluation of epoch num_epochs, or through the abort routine.
C2_Terminates ==
    (/\ entry = "training"
     /\ runner = "standard"
     /\ hyper_ok
     /\ tproblem.nTrain >= 1
     /\ tproblem.nEval >= 1) =>
        \/ ENABLED Next
        \/ /\ pc = "done"
           /\ output # NoOutput
           /\ \/ aborted = 0 /\ epoch_count = num_epochs
              \/ aborted = 1 /\ epoch_count < num_epochs

\* a returned trajectory of the split `mode`, frozen at the epoch the run stopped in
C3_Padded(traj, mode, loss_not_accuracy) ==
    /\ Len(traj) = num_epochs + 1
    /\ \A i \in 0..epoch_count :
          traj[i + 1] = IF loss_not_accuracy
                        THEN ExpectedLoss(mode, i * tproblem.nTrain)
                        ELSE ExpectedAccuracy(mode, i * tproblem.nTrain)
    /\ \A i \in (epoch_count + 1)..num_epochs : traj[i + 1] = traj[epoch_count + 1]

\* C3: when the last batch loss of the training pass of epoch e is not finite,
\* e < num_epochs and the returned trajectories have length num_epochs + 1, hold at
\* indices 0..e the values evaluated before that pass and repeat the value of
\* index e at every later index.
C3_DivergencePadding ==
    (output # NoOutput /\ NonFinite(batch_loss)) =>
        /\ epoch_count < num_epochs
        /\ C3_Padded(output.train_losses, "train_eval", TRUE)
        /\ C3_Padded(output.test_losses, "test", TRUE)
        /\ C3_Padded(output.train_accuracies, "train_eval", FALSE)
        /\ C3_Padded(output.test_accuracies, "test", FALSE)

C3_Witness ==
    /\ output # NoOutput
    /\ IsInf(batch_loss)
    /\ epoch_count = 0
    /\ num_epochs = MaxEpochs
    /\ tproblem.nEval = MaxEvalBatches

\* C4: run writes the output record exactly when no_logs is not set: never
\* when it is set, once when it is not, whatever weight_decay is.
C4_PersistsUnlessNoLogs ==
    run_result # NoOutput =>
        persisted = IF Truthy(args.no_logs) THEN 0 ELSE 1

\* C5: in StandardRunner.training the minibatch log holds, for every training
\* pass, the losses of the batches whose index in that pass is a multiple of
\* train_log_interval: ceil(B/k) entries per pass of B batches, and
\* num_epochs * ceil(B/k) entries after a completed run.
C5_MinibatchLog ==
    (runner = "standard" /\ train_log_interval >= 1) =>
        LET B == tproblem.nTrain
            k == train_log_interval
            c == Ceil(B, k)
            log == minibatch_train_losses
        IN  /\ pc = "train_loop" => Len(log) = epoch_count * c + Ceil(batch_count, k)
            /\ pc = "diverge_check" => Len(log) = (epoch_count + 1) * c
            /\ (output # NoOutput /\ aborted = 0) =>
                  Len(output.minibatch_train_losses) = num_epochs * c
            /\ \A j \in 1..Len(log) :
                  LET e == (j - 1) \div c
                      i == ((j - 1) % c) * k
                  IN  log[j] \in {tproblem.bad, ExpectedBatchLoss(i, e * B + i)}

C5_Witness ==
    /\ runner = "standard"
    /\ output # NoOutput
    /\ aborted = 0
    /\ tproblem.nTrain = 3
    /\ train_log_interval = 2
    /\ num_epochs = 2
    /\ Len(output.minibatch_train_losses) = 4

\* C6: evaluate returns the sum of the batch losses over the number of batches,
\* plus the regularization loss once when the test problem has one, and the
\* sum of the batch accuracies over the number of batches; only an empty pass
\* makes it raise.
C6_EvaluateMeans ==
    /\ pc = ev_ret =>
          /\ tproblem.nEval >= 1
          /\ ev_result.loss = ExpectedLoss(tp_mode, opt_steps)
          /\ ev_result.accuracy = ExpectedAccuracy(tp_mode, opt_steps)
    /\ (pc = "raised" /\ tp_mode \in {"test", "train_eval"}) => tproblem.nEval = 0

C6_Witness ==
    /\ pc = "append_test"
    /\ tproblem.has_reg
    /\ tproblem.nEval = MaxEvalBatches
    /\ opt_steps > 0

\* C7: two calls of evaluate in immediate succession with the same split and an
\* unchanged model return the same loss and accuracy; each begins a pass of
\* the split with its init op and consumes it to exhaustion.
C7_EvaluateTwice ==
    /\ pc = "compare" => ev_result = first_result
    /\ pc \in {"second_call", "compare"} =>
          /\ tp_mode = EvalMode(ev_test)
          /\ tp_pos = tproblem.nEval
          /\ batchCount = tproblem.nEval

C7_Witness ==
    /\ pc = "compare"
    /\ tproblem.nEval = MaxEvalBatches
    /\ tproblem.has_reg
    /\ opt_steps > 0
    /\ first_result # NoResult

\* C8: with lr_sched_epochs = [2, 4], lr_sched_factors = [0.1, 0.1] and
\* num_epochs = 5 the learning rate is 0.1 times the initial rate after the
\* training pass of epoch 1, the pass before boundary 2, and 0.01 times the
\* initial rate after the training pass of epoch 3 and from boundary 4 on.
C8_ScheduleRates ==
    /\ (pc = "diverge_check" /\ epoch_count = 1) => lr = Rat(1, 10)
    /\ (pc = "diverge_check" /\ epoch_count = 3) => lr = Rat(1, 100)
    /\ (epoch_count >= 4 /\ pc # "raised") => lr = Rat(1, 100)

C8_Witness ==
    /\ pc = "diverge_check"
    /\ epoch_count = 3
    /\ lr = Rat(1, 100)
    /\ num_epochs = 5
    /\ lr_sched_epochs = List(<<2, 4>>)

\* C9: the record LearningRateScheduleRunner.training returns, after normal
\* completion or after an abort, holds under analyzable_training_params the
\* lr_sched_epochs and lr_sched_factors the call was given.
C9_AnalyzableParams ==
    (entry = "training" /\ runner = "lrsched" /\ output # NoOutput) =>
        /\ DOMAIN output = {"train_losses", "test_losses", "train_accuracies",
                            "test_accuracies", "analyzable_training_params"}
        /\ output.analyzable_training_params =
              [lr_sched_epochs |-> args.lr_sched_epochs,
               lr_sched_factors |-> args.lr_sched_factors]

C9_Witness ==
    /\ runner = "lrsched"
    /\ output # NoOutput
    /\ aborted = 1
    /\ args.lr_sched_epochs = List(<<1, 2>>)
    /\ "analyzable_training_params" \in DOMAIN output

\* the arguments of run name a fatal configuration error
ConfigurationError == ~tproblem.known \/ ~hyper_ok \/ tproblem.nEval = 0

\* C10: a call of run for an unknown test problem, for hyperparameters the
\* optimizer rejects or for a test problem whose evaluation pass is empty
\* returns no record and writes none: the exception leaves run, which does
\* nothing more.
C10_FatalErrorPropagates ==
    /\ ConfigurationError =>
          /\ run_result = NoOutput
          /\ output = NoOutput
          /\ persisted = 0
          /\ pc # "returned"
    /\ exception # "none" =>
          /\ pc = "raised"
          /\ ~ENABLED NextRun
          /\ run_result = NoOutput
          /\ persisted = 0

C10_Witness ==
    /\ entry = "run"
    /\ exception = "ZeroDivisionError"
    /\ tproblem.nEval = 0
    /\ tproblem.known
    /\ hyper_ok
    /\ tp_mode = "train_eval"

\* C11: a divergence abort neither pads nor alters the minibatch log. In
\* StandardRunner.training the record returned after an abort carries the log
\* as it stood when the diverging pass ended: the sampled batches of the
\* epoch_count + 1 passes that ran, and nothing more. In
\* LearningRateScheduleRunner.training the abort leaves the log alone and the
\* record has no minibatch_train_losses entry, aborted or not.
C11_AbortKeepsMinibatchLog ==
    /\ (runner = "standard" /\ train_log_interval >= 1 /\ aborted > 0
            /\ output # NoOutput) =>
          LET B == tproblem.nTrain
              k == train_log_interval
              c == Ceil(B, k)
              log == output.minibatch_train_losses
          IN  /\ log = minibatch_train_losses
              /\ Len(log) = (epoch_count + 1) * c
              /\ \A j \in 1..Len(log) :
                    LET e == (j - 1) \div c
                        i == ((j - 1) % c) * k
                    IN  log[j] \in {tproblem.bad, ExpectedBatchLoss(i, e * B + i)}
    /\ (runner = "lrsched" /\ output # NoOutput) =>
          "minibatch_train_losses" \notin DOMAIN output
    /\ (runner = "lrsched" /\ train_log_interval >= 1 /\ aborted > 0) =>
          Len(minibatch_train_losses) = (epoch_count + 1) * Ceil(tproblem.nTrain, train_log_interval)

\* an abort in the first of several epochs, with a log shorter than the padded
\* trajectories
C11_Witness ==
    /\ runner = "standard"
    /\ aborted = 1
    /\ output # NoOutput
    /\ epoch_count = 0
    /\ Len(output.train_losses) > Len(output.minibatch_train_losses)
    /\ Len(output.minibatch_train_losses) > 0

\* C12: evaluation brackets training in both drivers. When a training pass is
\* about to begin, the last thing done to the test problem is a finished test
\* pass, and the entries of this epoch in the train and test trajectories were
\* evaluated on the parameters the pass starts from. Within an epoch the train
\* trajectories are appended before the test trajectories. Every pass that
\* ended without divergence is followed by one more pair of evaluations before
\* another pass begins or the record is returned.
C12_EvaluationBracketsTraining ==
    LET passes == zero_grads - opt_steps
        now == epoch_count + 1
    IN  /\ pc \in {"sched_step", "train_init"} =>
              /\ tp_mode = "test" /\ tp_exhausted /\ ev_test
              /\ batchCount = tproblem.nEval
              /\ Len(train_losses) = now /\ Len(test_losses) = now
              /\ Len(train_accuracies) = now /\ Len(test_accuracies) = now
              /\ passes = epoch_count
              /\ train_losses[now] = ExpectedLoss("train_eval", opt_steps)
              /\ train_accuracies[now] = ExpectedAccuracy("train_eval", opt_steps)
              /\ test_losses[now] = ExpectedLoss("test", opt_steps)
              /\ test_accuracies[now] = ExpectedAccuracy("test", opt_steps)
        /\ pc \in {"train_loop", "diverge_check"} =>
              /\ Len(train_losses) = now /\ Len(test_losses) = now
              /\ Len(train_accuracies) = now /\ Len(test_accuracies) = now
        /\ (pc \in {"evaluate", "eval_loop", "append_test"} /\ ev_test) =>
              /\ Len(train_losses) = now /\ Len(train_accuracies) = now
              /\ Len(test_losses) = epoch_count /\ Len(test_accuracies) = epoch_count
              /\ train_losses[now] = ExpectedLoss("train_eval", opt_steps)
        /\ (pc \in {"evaluate", "eval_loop", "append_train"} /\ ~ev_test) =>
              /\ Len(train_losses) = epoch_count /\ Len(test_losses) = epoch_count
              /\ Len(train_accuracies) = epoch_count
              /\ Len(test_accuracies) = epoch_count
        /\ (output # NoOutput /\ aborted = 0) =>
              /\ Len(output.test_losses) = passes + 1
              /\ Len(output.train_losses) = passes + 1
              /\ output.train_losses[passes + 1] = ExpectedLoss("train_eval", opt_steps)
              /\ output.test_losses[passes + 1] = ExpectedLoss("test", opt_steps)

\* the second training pass is about to begin, after the evaluations that
\* followed the first
C12_Witness ==
    /\ pc = "train_init"
    /\ epoch_count = 1
    /\ opt_steps > 0
    /\ Len(test_losses) = 2

\* the entries of a trajectory at indices 0..upto are the snapshots evaluated
\* after as many training passes as their index
C13_Snapshots(traj, mode, loss_not_accuracy, upto) ==
    \A i \in 0..(Len(traj) - 1) :
        i <= upto =>
            traj[i + 1] = IF loss_not_accuracy
                          THEN ExpectedLoss(mode, i * tproblem.nTrain)
                          ELSE ExpectedAccuracy(mode, i * tproblem.nTrain)

\* the counts of a run: a record returned without abort follows num_epochs
\* training passes and num_epochs + 1 evaluation pairs, no training pass
\* follows the evaluation of epoch num_epochs, and with num_epochs = 0 the
\* optimizer's step and zero_grad are never invoked
C13_Counts ==
    /\ (output # NoOutput /\ aborted = 0) =>
          /\ zero_grads - opt_steps = num_epochs
          /\ opt_steps = num_epochs * tproblem.nTrain
          /\ epoch_count = num_epochs
          /\ Len(output.train_losses) = num_epochs + 1
          /\ Len(output.test_losses) = num_epochs + 1
          /\ Len(output.train_accuracies) = num_epochs + 1
          /\ Len(output.test_accuracies) = num_epochs + 1
    /\ epoch_count >= num_epochs =>
          pc \notin {"sched_step", "train_init", "train_loop", "diverge_check"}
    /\ num_epochs = 0 => (opt_steps = 0 /\ zero_grads = 0)

\* C13 as stated: in every reachable state the entry at index i of every
\* trajectory was evaluated after exactly i training passes, and the counts
\* of a run are as above.
C13_Original ==
    /\ C13_Snapshots(train_losses, "train_eval", TRUE, Len(train_losses))
    /\ C13_Snapshots(test_losses, "test", TRUE, Len(test_losses))
    /\ C13_Snapshots(train_accuracies, "train_eval", FALSE, Len(train_accuracies))
    /\ C13_Snapshots(test_accuracies, "test", FALSE, Len(test_accuracies))
    /\ C13_Counts

\* C13: in every reachable state of either driver the entry at index i of
\* every trajectory, for i up to the current epoch, was evaluated after exactly
\* i training passes; the entries above the epoch of an abort repeat the entry
\* of that epoch. A record returned without abort follows num_epochs training
\* passes and num_epochs + 1 evaluation pairs, no training pass follows the
\* evaluation of epoch num_epochs, and with num_epochs = 0 the optimizer's step
\* and zero_grad are never invoked.
C13_SnapshotIndex ==
    /\ C13_Snapshots(train_losses, "train_eval", TRUE, epoch_count)
    /\ C13_Snapshots(test_losses, "test", TRUE, epoch_count)
    /\ C13_Snapshots(train_accuracies, "train_eval", FALSE, epoch_count)
    /\ C13_Snapshots(test_accuracies, "test", FALSE, epoch_count)
    /\ aborted > 0 =>
          \A i \in (epoch_count + 1)..num_epochs :
              /\ train_losses[i + 1] = train_losses[epoch_count + 1]
              /\ test_losses[i + 1] = test_losses[epoch_count + 1]
              /\ train_accuracies[i + 1] = train_accuracies[epoch_count + 1]
              /\ test_accuracies[i + 1] = test_accuracies[epoch_count + 1]
    /\ C13_Counts

\* a completed run of several epochs with non-empty passes
C13_Witness ==
    /\ output # NoOutput
    /\ aborted = 0
    /\ num_epochs = MaxEpochs
    /\ opt_steps = MaxEpochs * MaxTrainBatches
    /\ Len(output.test_accuracies) = MaxEpochs + 1

\* the iteration protocol as a condition on states: a batch loop runs in the
\* mode its init op selected and on a pass that has not signalled its end, an
\* init op is reached only on a finished pass, a pass that signalled its end
\* has delivered all its batches, and StopIteration is never the exception
\* that leaves the driver
C14_ProtocolState ==
    /\ pc = "eval_loop" => (tp_mode = EvalMode(ev_test) /\ ~tp_exhausted)
    /\ pc = "train_loop" => (tp_mode = "train" /\ ~tp_exhausted)
    /\ (pc \in {"evaluate", "train_init"} /\ tp_mode # "none") => tp_exhausted
    /\ tp_mode = "none" => (tp_pos = 0 /\ ~tp_exhausted)
    /\ tp_mode # "none" => tp_pos <= PassLength(tp_mode)
    /\ tp_exhausted => (tp_pos = PassLength(tp_mode) /\ pc \notin {"eval_loop", "train_loop"})
    /\ exception # "StopIteration"

\* the iteration protocol as a condition on steps: a pull happens in a mode
\* an init op selected and on a pass that has not signalled its end; the mode
\* changes only from a pass that has signalled its end, and to a fresh pass;
\* the end-of-pass signal leaves the batch loop
C14_ProtocolStep ==
    /\ tp_pos' > tp_pos =>
          (tp_mode # "none" /\ tp_mode' = tp_mode /\ ~tp_exhausted /\ ~tp_exhausted')
    /\ tp_mode' # tp_mode =>
          ((tp_mode = "none" \/ tp_exhausted) /\ tp_pos' = 0 /\ ~tp_exhausted')
    /\ (~tp_exhausted /\ tp_exhausted') =>
          (pc \in {"eval_loop", "train_loop"} /\ pc' \notin {"eval_loop", "train_loop"}
             /\ tp_pos' = tp_pos /\ tp_mode' = tp_mode)

\* C14: both drivers follow the test problem's iteration protocol. A batch is
\* pulled only in a mode whose pass was begun by that mode's init op and has
\* not signalled exhaustion; the mode is switched only after the current pass
\* has signalled its end; the signal ends that pass's batch loop, no pull
\* follows it in that pass, and it never leaves the driver as an exception.
C14_IterationProtocol == [](C14_ProtocolState) /\ [][C14_ProtocolStep]_vars

\* a training pass that has signalled its end after delivering all its batches
\* in the second epoch
C14_Witness ==
    /\ tp_mode = "train"
    /\ tp_exhausted
    /\ tp_pos = MaxTrainBatches
    /\ epoch_count = 1
    /\ pc = "diverge_check"

\* the abort as a condition on states: the loss inspected after a pass is
\* that of the pass's last batch, the driver goes on to the next epoch only
\* with a finite one, a record is returned after an abort exactly when that
\* loss is not finite, and an abort happens at most once, at the end of a
\* training pass, with nothing done to test problem or optimizer since
C15_AbortState ==
    LET B == tproblem.nTrain
    IN  /\ (pc = "diverge_check" /\ B >= 1) =>
              batch_loss \in {tproblem.bad, ExpectedBatchLoss(B - 1, opt_steps - 1)}
        /\ (pc = "for_epoch" /\ epoch_count >= 0) =>
              (batch_loss # Unbound /\ ~NonFinite(batch_loss))
        /\ output # NoOutput => (aborted = 1 <=> NonFinite(batch_loss))
        /\ aborted <= 1
        /\ aborted = 1 =>
              /\ pc \in {"output", "done", "run_post", "returned"}
              /\ tp_mode = "train" /\ tp_exhausted
              /\ opt_steps = (epoch_count + 1) * B
              /\ zero_grads = (epoch_count + 1) * (B + 1)

\* the abort as a condition on steps: the step after a pass aborts exactly
\* when the last batch loss is NaN or infinite and otherwise goes on to the
\* next epoch, and after an abort nothing but the return happens
C15_AbortStep ==
    /\ (pc = "diverge_check" /\ batch_loss # Unbound) =>
          /\ (aborted' = aborted + 1) <=> NonFinite(batch_loss)
          /\ ~NonFinite(batch_loss) => (pc' = "for_epoch" /\ aborted' = aborted)
          /\ NonFinite(batch_loss) => pc' = "output"
    /\ aborted' # aborted => pc = "diverge_check"
    /\ aborted = 1 =>
          UNCHANGED <<tpvars, optvars, schedvars, trajectories, trainvars, evalvars,
                      epoch_count, aborted>>

\* C15: after each training pass the driver inspects the loss of the last
\* batch of that pass; it invokes the abort routine exactly when that loss is
\* NaN or infinite and otherwise continues with the next epoch. The abort
\* happens at most once and is terminal: no evaluation, mode switch, pull or
\* optimizer call follows it before the return. A non-finite loss of an
\* earlier batch of a pass whose last batch loss is finite does not abort.
C15_AbortOnLastBatchLoss == [](C15_AbortState) /\ [][C15_AbortStep]_vars

\* a run whose first pass logged a non-finite loss of its first batch and went
\* on, and whose second pass aborted on its last batch loss
C15_Witness ==
    /\ aborted = 1
    /\ output # NoOutput
    /\ epoch_count = 1
    /\ tproblem.nTrain >= 2
    /\ train_log_interval = 1
    /\ NonFinite(minibatch_train_losses[1])
    /\ ~NonFinite(minibatch_train_losses[tproblem.nTrain])

\* a batch of a training pass: one gradient reset, the loss of the batch on
\* the parameters before the step (with the regularization loss if the test
\* problem has one), one optimizer step; the optimizer steps nowhere else and
\* gradients are reset nowhere else but on the pull that ends the pass
C16_BatchStep ==
    /\ (tp_mode = "train" /\ tp_pos' = tp_pos + 1) =>
          /\ zero_grads' = zero_grads + 1
          /\ opt_steps' = opt_steps + 1
          /\ batch_loss' \in {tproblem.bad, ExpectedBatchLoss(tp_pos, opt_steps)}
    /\ opt_steps' # opt_steps =>
          (tp_mode = "train" /\ tp_pos' = tp_pos + 1 /\ tp_mode' = "train")
    /\ zero_grads' # zero_grads =>
          /\ zero_grads' = zero_grads + 1
          /\ tp_mode = "train" /\ tp_mode' = "train"
          /\ tp_pos' = tp_pos + 1 \/ (~tp_exhausted /\ tp_exhausted')

\* C16 as stated: a finished training pass of B batches has made B optimizer
\* steps and B gradient resets.
C16_Original ==
    pc = "diverge_check" =>
        /\ opt_steps = (epoch_count + 1) * tproblem.nTrain
        /\ zero_grads = (epoch_count + 1) * tproblem.nTrain

\* the counts during and after a training pass of B batches: B optimizer
\* steps and B + 1 gradient resets per finished pass
C16_PassCounts ==
    LET B == tproblem.nTrain
    IN  /\ pc = "train_loop" =>
              /\ opt_steps = epoch_count * B + tp_pos
              /\ zero_grads = epoch_count * (B + 1) + tp_pos
        /\ pc = "diverge_check" =>
              /\ opt_steps = (epoch_count + 1) * B
              /\ zero_grads = (epoch_count + 1) * (B + 1)

\* C16: within a training pass each batch is processed by one gradient reset,
\* the batch-loss pull (plus the regularization loss if present),
\* back-propagation and one optimizer step; one more gradient reset precedes
\* the pull that signals the end of the pass, so a training pass of B batches
\* performs exactly B optimizer steps and exactly B + 1 gradient resets.
C16_BatchProcessing == [](C16_PassCounts) /\ [][C16_BatchStep]_vars

\* the second pass of the longest test problem has ended
C16_Witness ==
    /\ pc = "diverge_check"
    /\ epoch_count = 1
    /\ tproblem.nTrain = MaxTrainBatches
    /\ opt_steps = 2 * MaxTrainBatches
    /\ zero_grads = 2 * MaxTrainBatches + 2

\* the optimizer exists, once, from the start of the epoch loop on
C17_ConstructedOnce ==
    /\ opt_constructed <= 1
    /\ pc \notin {"training", "raised"} => opt_constructed = 1
    /\ tp_mode # "none" => opt_constructed = 1
    /\ opt_constructed = 0 => (opt_steps = 0 /\ zero_grads = 0)

\* the optimizer is constructed before any init op of the test problem, its
\* step and zero_grad are called only in train mode, and a step of evaluate
\* changes neither the optimizer's counters nor the parameters
C17_OptimizerStep ==
    /\ opt_constructed' # opt_constructed =>
          (pc = "training" /\ tp_mode = "none" /\ opt_constructed' = 1)
    /\ (opt_steps' # opt_steps \/ zero_grads' # zero_grads) =>
          (tp_mode = "train" /\ tp_mode' = "train" /\ opt_constructed = 1)
    /\ (pc \in {"evaluate", "eval_loop"} \/ tp_mode' \in {"test", "train_eval"}) =>
          UNCHANGED optvars

\* C17: the optimizer is constructed exactly once per training call, before
\* the first evaluation; zero_grad and step are invoked only while the test
\* problem is in train mode, so an evaluation pass, test or train-eval, leaves
\* the optimizer state and the model parameters unchanged.
C17_OptimizerOnlyInTrainMode == [](C17_ConstructedOnce) /\ [][C17_OptimizerStep]_vars

\* a test evaluation that ran after a training pass and left the counters of
\* that pass as they were
C17_Witness ==
    /\ pc = "append_test"
    /\ epoch_count = 1
    /\ tp_mode = "test"
    /\ tp_pos = MaxEvalBatches
    /\ opt_steps = MaxTrainBatches
    /\ zero_grads = MaxTrainBatches + 1

\* the epochs for which LearningRateScheduleRunner.training has logged a new
\* learning rate are the breakpoints among the epochs whose training pass has
\* been prepared, each once and in order
C18_Logged ==
    /\ \A j \in 1..Len(lr_log) :
          /\ lr_log[j] < sched_epoch
          /\ \E i \in 1..Len(lr_sched_epochs.v) : lr_sched_epochs.v[i] = lr_log[j]
          /\ \A h \in 1..(j - 1) : lr_log[h] < lr_log[j]
    /\ \A i \in 1..Len(lr_sched_epochs.v) :
          (lr_sched_epochs.v[i] >= 0 /\ lr_sched_epochs.v[i] < sched_epoch) =>
              \E j \in 1..Len(lr_log) : lr_log[j] = lr_sched_epochs.v[i]

\* the schedule as a condition on states of the schedule-aware driver
C18_ScheduleState ==
    runner = "lrsched" =>
        IF lr_sched_epochs = None
        THEN sched_epoch = -1 /\ lr_log = <<>> /\ lr = Rat(1, 1)
        ELSE /\ pc = "sched_step" =>
                   (sched_epoch = epoch_count /\ tp_mode = "test" /\ tp_exhausted)
             /\ pc = "train_init" =>
                   (sched_epoch = epoch_count + 1 /\ tp_mode = "test")
             /\ pc \in {"train_loop", "diverge_check"} => sched_epoch = epoch_count + 1
             /\ (output # NoOutput /\ aborted = 0) => sched_epoch = num_epochs
             /\ (output # NoOutput /\ aborted = 1) => sched_epoch = epoch_count + 1
             /\ opt_constructed = 1 => C18_Logged

\* the schedule is built once, when training starts, and advanced one step at
\* a time, between the evaluations of an epoch and its train_init_op
C18_ScheduleStep ==
    sched_epoch' # sched_epoch =>
        \/ pc = "training" /\ sched_epoch = -1 /\ sched_epoch' = 0
                /\ lr_sched_epochs # None
        \/ pc = "sched_step" /\ sched_epoch' = sched_epoch + 1 /\ pc' = "train_init"

\* C18: in LearningRateScheduleRunner.training with lr_sched_epochs given, the
\* schedule is built once and advanced exactly one step before each training
\* pass, after that epoch's evaluations and before train_init_op: e + 1 steps
\* when the pass of epoch e runs and num_epochs steps in a completed run. The
\* new learning rate is logged exactly for the epochs with a training pass
\* that are in lr_sched_epochs. Without lr_sched_epochs no schedule is built
\* or advanced.
C18_ScheduleAdvance == [](C18_ScheduleState) /\ [][C18_ScheduleStep]_vars

\* a completed run of two epochs with breakpoints 1 and 2: two schedule steps,
\* one logged rate
C18_Witness ==
    /\ runner = "lrsched"
    /\ lr_sched_epochs = List(<<1, 2>>)
    /\ output # NoOutput
    /\ aborted = 0
    /\ num_epochs = 2
    /\ sched_epoch = 2
    /\ lr_log = <<1>>

\* C19: in StandardRunner.training with telemetry enabled, the global step
\* starts at 0, counts every processed training batch of the run without a
\* reset between epochs, and the step attached to a logged batch is the
\* number of training batches processed before it in the run, so the steps of
\* successive telemetry points increase strictly.
C19_GlobalStep ==
    (runner = "standard" /\ opt_constructed = 1 /\ train_log_interval >= 1) =>
        IF tb_log
        THEN LET B == tproblem.nTrain
                 k == train_log_interval
                 c == Ceil(B, k)
             IN  /\ global_step = opt_steps
                 /\ opt_steps = 0 => tb_points = <<>>
                 /\ Len(tb_points) = Len(minibatch_train_losses)
                 /\ \A j \in 1..Len(tb_points) :
                       /\ tb_points[j] = ((j - 1) \div c) * B + ((j - 1) % c) * k
                       /\ \A h \in 1..(j - 1) : tb_points[h] < tb_points[j]
        ELSE tb_points = <<>>

\* a completed run of two epochs of three batches, logged every second batch
C19_Witness ==
    /\ runner = "standard"
    /\ tb_log
    /\ output # NoOutput
    /\ aborted = 0
    /\ train_log_interval = 2
    /\ global_step = 6
    /\ tb_points = <<0, 2, 3, 5>>

\* C20: when run is invoked on a LearningRateScheduleRunner and has called
\* training, the driver's train_log_interval is the caller's
\* train_log_interval and the driver's lr_sched_epochs and lr_sched_factors
\* are the caller's training parameters of those names.
C20_ArgumentsReachDriver ==
    (entry = "run" /\ runner = "lrsched" /\ tproblem.known
        /\ pc \notin {"run", "create_testproblem", "call_training"}) =>
        /\ train_log_interval = args.train_log_interval
        /\ lr_sched_epochs.t = args.training_params.lr_sched_epochs.t
        /\ lr_sched_factors.t = args.training_params.lr_sched_factors.t
        /\ lr_sched_epochs = args.training_params.lr_sched_epochs
        /\ lr_sched_factors = args.training_params.lr_sched_factors

====
